---- MODULE Spec2Model ----
(***************************************************************************)
(* Model of data-generator/fraud_data_generator.py: the impossible-travel  *)
(* transaction generator.  Three specifications are defined:               *)
(*   Spec       the driver main(), one action per statement: start-up, the *)
(*              batch loop, the except and finally clauses.  The           *)
(*              KeyboardInterrupt can be raised at any position and the    *)
(*              clock can move on at any position;                         *)
(*   SpecSynth  generate_transaction() applied once to drawn arguments;    *)
(*   SpecTable  generate_transaction() with a smaller table of cities.     *)
(* Time is counted in seconds since the start of the process; the          *)
(* fraction of a second of a clock reading is cut off, so two readings     *)
(* within the same second are the same time point here.                    *)
(* Distances are kept in whole metres.                                     *)
(***************************************************************************)
EXTENDS Integers, Sequences, FiniteSets, TLC

\* ------------------------------------------------------------------ bounds
\* The driver stops synthesizing once transaction_count reaches MaxTxn.
MaxTxn == 52
\* Raw draws of the random source for random.choice in the driver: 0..MaxRand.
MaxRand == 1
\* Steps of one run at which the environment departs from its first answer:
\* a card other than CardLo is drawn, random.choice over cities gives a raw
\* draw other than 0, or the clock gains an extra second.
MaxDeviations == 1

\* ------------------------------------------------------- program constants
FraudEvery == 50
BatchSize == 10
HeartbeatEvery == 100
SleepSeconds == 2
CardLo == 1000
CardHi == 1050
FraudKm == 5000
FraudMinLo == 10
FraudMinHi == 30
SuffixLo == 1000
SuffixHi == 9999
AmountLo == 5
AmountHi == 500

None == [none |-> TRUE]

\* A dict without keys.
EmptyDict == << >>

\* bool(d) of a dict or None, as tested by `if last_transaction:` (line 67):
\* None and the dict without keys are falsy.
truthy(d) == d # None /\ DOMAIN d # { }

\* --------------------------------------------------------- reference data
\* Keys of CITIES in insertion order (the order list(CITIES.keys()) yields).
\* The sixth key is written in ASCII here.
CityNames ==
  << "London", "New York", "Tokyo", "Sydney", "Dubai",
     "Sao Paulo", "Singapore", "Mumbai", "Paris", "Los Angeles" >>

\* CITIES: (latitude, longitude) in units of 1e-4 degree.
CITIES ==
  [ c \in {CityNames[i] : i \in 1..Len(CityNames)} |->
      CASE c = "London"      -> << 515074,   -1278 >>
        [] c = "New York"    -> << 407128, -740060 >>
        [] c = "Tokyo"       -> << 356762, 1396503 >>
        [] c = "Sydney"      -> << -338688, 1512093 >>
        [] c = "Dubai"       -> << 252048,  552708 >>
        [] c = "Sao Paulo"   -> << -235505, -466333 >>
        [] c = "Singapore"   -> <<  13521, 1038198 >>
        [] c = "Mumbai"      -> << 190760,  728777 >>
        [] c = "Paris"       -> << 488566,   23522 >>
        [] c = "Los Angeles" -> << 340522, -1182437 >> ]

\* Keys of MERCHANTS in insertion order, and the list of each key.
MerchantCategories == << "retail", "gas", "food", "tech", "travel" >>

MERCHANTS ==
  [ k \in {MerchantCategories[i] : i \in 1..Len(MerchantCategories)} |->
      CASE k = "retail" -> << "Amazon", "Walmart", "Target", "Tesco", "IKEA" >>
        [] k = "gas"    -> << "Shell", "BP", "Exxon", "Chevron" >>
        [] k = "food"   -> << "Starbucks", "McDonald's", "Subway", "Chipotle" >>
        [] k = "tech"   -> << "Apple Store", "Best Buy", "Microsoft Store" >>
        [] k = "travel" -> << "British Airways", "Hilton", "Marriott", "Uber" >> ]

\* geopy.distance.geodesic is library code outside the repository.  Its
\* result is taken from the definition the specification gives (section 4.1,
\* the ellipsoidal distance over (lat, lon) pairs), evaluated on WGS-84 for
\* the coordinates of CITIES and kept in whole metres; row = index of the
\* first point, column = index of the second.  The table serves comparisons
\* with the 5000 km threshold (the nearest entries are 3944 km and 5253 km)
\* and the whole kilometres of the fraud line; it says nothing about the
\* last digits of the float the library returns.
GeodesicMetres ==
  << << 0, 5585234, 9582151, 16989296, 5480091, 9472774, 10852378, 7199599, 343923, 8776636 >>,
     << 5585234, 0, 10875724, 15988007, 11028386, 7657830, 15340583, 12556791, 5852935, 3944422 >>,
     << 9582151, 10875724, 0, 7792175, 7944678, 18533548, 5303237, 6729907, 9735309, 8838470 >>,
     << 16989296, 15988007, 7792175, 0, 12044595, 13376629, 6300859, 10149910, 16957527, 12063119 >>,
     << 5480091, 11028386, 7944678, 12044595, 0, 12227062, 5837400, 1936805, 5253291, 13410295 >>,
     << 9472774, 7657830, 18533548, 13376629, 12227062, 0, 15999729, 13781074, 9378373, 9894953 >>,
     << 10852378, 15340583, 5303237, 6300859, 5837400, 15999729, 0, 3902258, 10733861, 14133182 >>,
     << 7199599, 12556791, 6729907, 10149910, 1936805, 13781074, 3902258, 0, 7017234, 14008384 >>,
     << 343923, 5852935, 9735309, 16957527, 5253291, 9378373, 10733861, 7017234, 0, 9107092 >>,
     << 8776636, 3944422, 8838470, 12063119, 13410295, 9894953, 14133182, 14008384, 9107092, 0 >> >>

\* Position in GeodesicMetres of a (lat, lon) pair of CITIES.
PointIndex(p) == CHOOSE i \in 1..Len(CityNames) : CITIES[CityNames[i]] = p

\* geodesic(p, q), in metres.
geodesic(p, q) == GeodesicMetres[PointIndex(p)][PointIndex(q)]

\* calculate_distance_km(city1, city2) of lines 50-52, in metres.  The
\* KeyError of a city that is not a key of the table in use is raised by
\* the caller's model (raises_KeyError).
calculate_distance_km(city1, city2) == geodesic(CITIES[city1], CITIES[city2])

\* --------------------------------------------------------- library helpers
\* random.choice(seq) with raw draw r: seq[r mod len(seq)] (0-based).
choice(seq, r) == seq[(r % Len(seq)) + 1]

\* timedelta(minutes = m), in seconds.
timedelta_minutes(m) == m * 60

\* datetime.isoformat(): the calendar fields of a time point.
isoformat(t) ==
  [ day |-> t \div 86400,
    hh  |-> (t % 86400) \div 3600,
    mm  |-> (t % 3600) \div 60,
    ss  |-> t % 60 ]

\* datetime.fromisoformat(): the time point of the calendar fields.
fromisoformat(s) == s.day * 86400 + s.hh * 3600 + s.mm * 60 + s.ss

\* datetime.strftime('%Y%m%d%H%M%S'): the same calendar fields, as digits.
strftime(t) ==
  << t \div 86400, (t % 86400) \div 3600, (t % 3600) \div 60, t % 60 >>

\* Variant: the cents are cut off and one cent is added.
Mut_round2(x) == ((x * 100) \div 1024) + 1

\* round(x, 2) of a float given in units of 1/1024 (such a float is exact
\* in binary): the nearest cent of the exact value, an exact tie going to
\* the even cent.  The result is in cents.
round2(x) ==
  LET q == (x * 100) \div 1024
      r == (x * 100) % 1024
  IN  IF r > 512 \/ (r = 512 /\ q % 2 = 1) THEN q + 1 ELSE q

\* ------------------------------------------------------------------ state
VARIABLES
  pc,                 \* position of main()
  conn_string,        \* CONNECTION_STRING is set (truthy)
  producer,           \* "none" | "open" | "closed"
  closes,             \* number of producer.close() calls made
  card_states,        \* dict card_id -> last transaction
  transaction_count,
  fraud_count,
  batch,              \* events added to the current batch, in order
  batch_count,
  idx,                \* completed passes of `for _ in range(10)`
  card_id,            \* local of the loop body (0: not yet assigned)
  force_fraud,        \* local of the loop body
  transaction,        \* local of the loop body (None: not yet assigned)
  now,                \* the clock read by datetime.utcnow()
  sink_batches,       \* batches accepted by producer.send_batch
  sink_records,       \* events in the accepted batches
  exc,                \* what ended the try block: "none" or the raising call
  console,            \* the last line printed
  fraud_prints,       \* number of "FRAUD INJECTED" lines printed
  table,              \* list(CITIES.keys()) of the table the process runs with
  frame,              \* locals of the running call of generate_transaction
  deviations          \* draws other than the first value and extra clock seconds

vars ==
  << pc, conn_string, producer, closes, card_states, transaction_count,
     fraud_count, batch, batch_count, idx, card_id, force_fraud, transaction,
     now, sink_batches, sink_records, exc, console, fraud_prints, table,
     frame, deviations >>

\* ---------------------------------------------------- generate_transaction
\* The draws of the random source consumed by one call:
\*   city     raw draw of random.choice over cities (both branches)
\*   minutes  random.randint(10, 30)
\*   category raw draw of random.choice(list(MERCHANTS.keys()))
\*   merchant raw draw of random.choice(MERCHANTS[category])
\*   suffix   random.randint(1000, 9999)
\*   amount   random.uniform(5.0, 500.0), in units of 1/1024

\* Variant: the distance filter of line 74 is dropped.
Mut_distant_cities(last_city) ==
  SelectSeq(table, LAMBDA c : c # last_city)

\* Variant: the threshold of line 74 is compared in the wrong unit.
Mut_distant_cities_unit(last_city) ==
  SelectSeq(table,
            LAMBDA c : c # last_city
                       /\ calculate_distance_km(last_city, c) > FraudKm * 1000 * 100)

\* distant_cities of lines 72-75, in the order of the keys of CITIES.
distant_cities(last_city) ==
  SelectSeq(table,
            LAMBDA c : c # last_city
                       /\ calculate_distance_km(last_city, c) > FraudKm * 1000)

\* Variant: the baseline branch draws a city instead of keeping the last one.
Mut_new_city(last_transaction, force, rnd) ==
  IF truthy(last_transaction) /\ force
  THEN IF distant_cities(last_transaction.location) # << >>
       THEN choice(distant_cities(last_transaction.location), rnd.city)
       ELSE "Tokyo"
  ELSE choice(table, rnd.city)

\* Fallback city of line 76.
FallbackCity == "Tokyo"

\* new_city of lines 67-94.
new_city(last_transaction, force, rnd) ==
  IF truthy(last_transaction)
  THEN IF force
       THEN IF distant_cities(last_transaction.location) # << >>
            THEN choice(distant_cities(last_transaction.location), rnd.city)
            ELSE FallbackCity
       ELSE last_transaction.location
  ELSE choice(table, rnd.city)

\* Variant: the gap is added as seconds, not minutes.
Mut_FraudTimestamp(last_transaction, rnd) ==
  fromisoformat(last_transaction.timestamp) + rnd.minutes

\* timestamp of lines 78-79, 91, 95 (a time point, before isoformat()).
FraudTimestamp(last_transaction, rnd) ==
  fromisoformat(last_transaction.timestamp) + timedelta_minutes(rnd.minutes)

NormalTimestamp(clock) == clock

\* Variant: the gap is applied whenever force is set, history or not.
Mut_timestamp_of(last_transaction, force, clock, rnd) ==
  IF force
  THEN IF truthy(last_transaction)
       THEN FraudTimestamp(last_transaction, rnd)
       ELSE clock + timedelta_minutes(rnd.minutes)
  ELSE NormalTimestamp(clock)

timestamp_of(last_transaction, force, clock, rnd) ==
  IF truthy(last_transaction) /\ force
  THEN FraudTimestamp(last_transaction, rnd)
  ELSE NormalTimestamp(clock)

\* Lines 67 and 70: the call takes the fraud branch.
takes_fraud_branch(last_transaction, force) ==
  truthy(last_transaction) /\ force

\* c is a key of CITIES as bound when the call runs.
InTable(c) == \E i \in 1..Len(table) : table[i] = c

\* The call raises KeyError: the prior record has no "location" (line 68);
\* its location is not a key of CITIES (line 51, reached from line 74 or,
\* with an empty table, line 81 when force is set; line 103 otherwise); with
\* force set it has no "timestamp" (line 78), or new_city is not a key
\* (line 51, reached from line 81).
raises_KeyError(last_transaction, force, rnd) ==
  /\ truthy(last_transaction)
  /\ \/ "location" \notin DOMAIN last_transaction
     \/ ~InTable(last_transaction.location)
     \/ force /\ "timestamp" \notin DOMAIN last_transaction
     \/ force /\ ~InTable(new_city(last_transaction, force, rnd))

\* The call raises IndexError: random.choice over the keys of an empty
\* table (line 94).
raises_IndexError(last_transaction) ==
  ~truthy(last_transaction) /\ table = << >>

\* The line printed at 84-87 by the fraud branch.
fraud_print(card, last_transaction, rnd) ==
  LET last_city == last_transaction.location
      city      == new_city(last_transaction, TRUE, rnd)
      last_time == fromisoformat(last_transaction.timestamp)
      ts        == FraudTimestamp(last_transaction, rnd)
  IN  [ msg       |-> "FRAUD INJECTED",
        card_id   |-> card,
        from      |-> last_city,
        to        |-> city,
        distance  |-> calculate_distance_km(last_city, city),
        delta_min |-> (ts - last_time) \div 60 ]

\* Variant: latitude and longitude are taken from the wrong tuple positions.
Mut_make_record(card, city, ts, rnd) ==
  LET category == choice(MerchantCategories, rnd.category)
  IN  [ card_id           |-> card,
        transaction_id    |-> << "TXN", strftime(ts), rnd.suffix >>,
        location          |-> city,
        latitude          |-> CITIES[city][2],
        longitude         |-> CITIES[city][1],
        timestamp         |-> isoformat(ts),
        amount            |-> round2(rnd.amount),
        merchant          |-> choice(MERCHANTS[category], rnd.merchant),
        merchant_category |-> category,
        currency          |-> "USD" ]

\* Lines 97-110: the dict built from new_city and timestamp.
make_record(card, city, ts, rnd) ==
  LET category == choice(MerchantCategories, rnd.category)
  IN  [ card_id           |-> card,
        transaction_id    |-> << "TXN", strftime(ts), rnd.suffix >>,
        location          |-> city,
        latitude          |-> CITIES[city][1],
        longitude         |-> CITIES[city][2],
        timestamp         |-> isoformat(ts),
        amount            |-> round2(rnd.amount),
        merchant          |-> choice(MERCHANTS[category], rnd.merchant),
        merchant_category |-> category,
        currency          |-> "USD" ]

\* The outcome of a call that raises instead of returning.
Raised(e) == [ raised |-> e ]

IsRaised(outcome) == DOMAIN outcome = { "raised" }

\* generate_transaction(card_id, last_transaction, force_fraud) as a whole:
\* the dict returned, or the exception raised.
generate_transaction(card, last_transaction, force, clock, rnd) ==
  IF raises_KeyError(last_transaction, force, rnd)
  THEN Raised("KeyError")
  ELSE IF raises_IndexError(last_transaction)
       THEN Raised("IndexError")
       ELSE make_record(card,
                        new_city(last_transaction, force, rnd),
                        timestamp_of(last_transaction, force, clock, rnd),
                        rnd)

\* json.dumps(transaction): the members of the dict in insertion order.
json_dumps(t) ==
  << << "card_id", t.card_id >>,
     << "transaction_id", t.transaction_id >>,
     << "location", t.location >>,
     << "latitude", t.latitude >>,
     << "longitude", t.longitude >>,
     << "timestamp", t.timestamp >>,
     << "amount", t.amount >>,
     << "merchant", t.merchant >>,
     << "merchant_category", t.merchant_category >>,
     << "currency", t.currency >> >>

\* EventData(body).
EventData(body) == [ body |-> body ]

\* Card ids drawn by random.randint(1000, 1050) in the model: both ends.
CardIds == { CardLo, CardHi }

\* Draws of the random source in the driver.  The fields no decision of the
\* driver reads (category, merchant, suffix, amount) are held at one value.
DriverDraws ==
  [ city     : 0..MaxRand,
    minutes  : { FraudMinLo, FraudMinHi },
    category : { 0 },
    merchant : { 0 },
    suffix   : { SuffixLo },
    amount   : { AmountLo * 1024 } ]

\* Positions of main(): before the try block of line 141, inside it, in one
\* of its except clauses, in its finally clause.
StartupPcs == { "config", "connect", "connected", "init" }
LoopPcs ==
  { "create", "reset", "count", "pick", "decide", "bump", "call", "return",
    "store", "add", "addcount", "send", "report", "heartbeat", "sleep" }
HandlerPcs ==
  { "except_interrupt", "summary_transactions", "summary_fraud",
    "except_exception" }

\* card_states.get(card).
Get(states, card) == IF card \in DOMAIN states THEN states[card] ELSE None

\* Variant: the store is replaced by the single new entry.
Mut_Put(states, card, txn) == [ c \in { card } |-> txn ]

\* card_states[card] = txn.
Put(states, card, txn) ==
  [ c \in (DOMAIN states) \cup { card } |-> IF c = card THEN txn ELSE states[c] ]

\* Variant: the history test of line 152 is dropped.
Mut_should_force_no_history(sequence_number, has_history) ==
  sequence_number % FraudEvery = 0

\* Variant: the cadence of line 152 is the batch size.
Mut_should_force_cadence(sequence_number, has_history) ==
  (sequence_number % BatchSize = 0) /\ has_history

\* Line 152: the injection decision.
should_force_anomaly(sequence_number, has_history) ==
  (sequence_number % FraudEvery = 0) /\ has_history

\* An exception raised inside the try block and caught at line 192.
OnException(call) ==
  /\ exc' = call
  /\ pc' = "except_exception"

Init ==
  /\ pc = "config"
  /\ conn_string \in BOOLEAN
  /\ producer = "none"
  /\ closes = 0
  /\ card_states = << >>
  /\ transaction_count = 0
  /\ fraud_count = 0
  /\ batch = << >>
  /\ batch_count = 0
  /\ idx = 0
  /\ card_id = 0
  /\ force_fraud = FALSE
  /\ transaction = None
  /\ now = 0
  /\ sink_batches = 0
  /\ sink_records = 0
  /\ exc = "none"
  /\ console = [ msg |-> "none" ]
  /\ fraud_prints = 0
  /\ table = CityNames
  /\ frame = None
  /\ deviations = 0

\* Variant: the missing connection string does not stop start-up.
Mut_CheckConfig ==
  /\ pc = "config"
  /\ console' = [ msg |-> "banner" ]
  /\ pc' = "connect"
  /\ UNCHANGED << conn_string, producer, closes, card_states,
                  transaction_count, fraud_count, batch, batch_count, idx,
                  card_id, force_fraud, transaction, now, sink_batches,
                  sink_records, exc, fraud_prints, table,
                  frame, deviations >>

\* Lines 114-125.
CheckConfig ==
  /\ pc = "config"
  /\ IF conn_string
     THEN /\ console' = [ msg |-> "banner" ]
          /\ pc' = "connect"
     ELSE /\ console' = [ msg |-> "ERROR: EVENT_HUB_CONNECTION_STRING not set" ]
          /\ pc' = "done"
  /\ UNCHANGED << conn_string, producer, closes, card_states,
                  transaction_count, fraud_count, batch, batch_count, idx,
                  card_id, force_fraud, transaction, now, sink_batches,
                  sink_records, exc, fraud_prints, table,
                  frame, deviations >>

\* Lines 128-131: the producer is acquired.
ConnectOk ==
  /\ pc = "connect"
  /\ producer' = "open"
  /\ pc' = "connected"
  /\ UNCHANGED << conn_string, closes, card_states, transaction_count,
                  fraud_count, batch, batch_count, idx, card_id, force_fraud,
                  transaction, now, sink_batches, sink_records, exc, console,
                  fraud_prints, table,
                  frame, deviations >>

\* Lines 133-135: from_connection_string raises an Exception.
ConnectFails ==
  /\ pc = "connect"
  /\ console' = [ msg |-> "Connection failed" ]
  /\ pc' = "done"
  /\ UNCHANGED << conn_string, producer, closes, card_states,
                  transaction_count, fraud_count, batch, batch_count, idx,
                  card_id, force_fraud, transaction, now, sink_batches,
                  sink_records, exc, fraud_prints, table,
                  frame, deviations >>

\* Line 132.
PrintConnected ==
  /\ pc = "connected"
  /\ console' = [ msg |-> "Connected" ]
  /\ pc' = "init"
  /\ UNCHANGED << conn_string, producer, closes, card_states,
                  transaction_count, fraud_count, batch, batch_count, idx,
                  card_id, force_fraud, transaction, now, sink_batches,
                  sink_records, exc, fraud_prints, table,
                  frame, deviations >>

\* Lines 137-139, then the try block of line 141 is entered.
InitState ==
  /\ pc = "init"
  /\ card_states' = << >>
  /\ transaction_count' = 0
  /\ fraud_count' = 0
  /\ pc' = "create"
  /\ UNCHANGED << conn_string, producer, closes, batch, batch_count, idx,
                  card_id, force_fraud, transaction, now, sink_batches,
                  sink_records, exc, console, fraud_prints, table,
                  frame, deviations >>

\* Line 143.
CreateBatch ==
  /\ pc = "create"
  /\ batch' = << >>
  /\ pc' = "reset"
  /\ UNCHANGED << conn_string, producer, closes, card_states,
                  transaction_count, fraud_count, batch_count, idx, card_id,
                  force_fraud, transaction, now, sink_batches, sink_records,
                  exc, console, fraud_prints, table,
                  frame, deviations >>

\* Line 144, and the for loop of line 147 starts.
ResetCount ==
  /\ pc = "reset"
  /\ batch_count' = 0
  /\ idx' = 0
  /\ pc' = "count"
  /\ UNCHANGED << conn_string, producer, closes, card_states,
                  transaction_count, fraud_count, batch, card_id,
                  force_fraud, transaction, now, sink_batches, sink_records,
                  exc, console, fraud_prints, table,
                  frame, deviations >>

\* Line 148.
CountTransaction ==
  /\ pc = "count"
  /\ transaction_count < MaxTxn
  /\ transaction_count' = transaction_count + 1
  /\ pc' = "pick"
  /\ UNCHANGED << conn_string, producer, closes, card_states, fraud_count,
                  batch, batch_count, idx, card_id, force_fraud, transaction,
                  now, sink_batches, sink_records, exc, console,
                  fraud_prints, table,
                  frame, deviations >>

\* Line 149.
PickCard ==
  /\ pc = "pick"
  /\ \E card \in CardIds :
       /\ card = CardLo \/ deviations < MaxDeviations
       /\ card_id' = card
       /\ deviations' = IF card = CardLo THEN deviations ELSE deviations + 1
  /\ pc' = "decide"
  /\ UNCHANGED << conn_string, producer, closes, card_states,
                  transaction_count, fraud_count, batch, batch_count, idx,
                  force_fraud, transaction, now, sink_batches, sink_records,
                  exc, console, fraud_prints, table,
                  frame >>

\* Line 152.
Decide ==
  /\ pc = "decide"
  /\ force_fraud' = should_force_anomaly(transaction_count,
                                         card_id \in DOMAIN card_states)
  /\ pc' = "bump"
  /\ UNCHANGED << conn_string, producer, closes, card_states,
                  transaction_count, fraud_count, batch, batch_count, idx,
                  card_id, transaction, now, sink_batches, sink_records, exc,
                  console, fraud_prints, table,
                  frame, deviations >>

\* Lines 153-154.
CountFraud ==
  /\ pc = "bump"
  /\ fraud_count' = IF force_fraud THEN fraud_count + 1 ELSE fraud_count
  /\ pc' = "call"
  /\ UNCHANGED << conn_string, producer, closes, card_states,
                  transaction_count, batch, batch_count, idx, card_id,
                  force_fraud, transaction, now, sink_batches, sink_records,
                  exc, console, fraud_prints, table,
                  frame, deviations >>

\* Lines 156-160 and 67-95: generate_transaction is entered, picks the
\* city and the timestamp and, in the fraud branch, prints its line.
Synthesize ==
  /\ pc = "call"
  /\ \E rnd \in DriverDraws :
       LET last  == Get(card_states, card_id)
           drawn == ~truthy(last) \/ force_fraud
           cost  == IF drawn /\ rnd.city # 0 THEN 1 ELSE 0
       IN  /\ drawn \/ rnd.city = 0
           /\ deviations + cost <= MaxDeviations
           /\ deviations' = deviations + cost
           /\ IF raises_KeyError(last, force_fraud, rnd) \/ raises_IndexError(last)
              THEN /\ OnException("generate_transaction")
                   /\ UNCHANGED << frame, console, fraud_prints >>
              ELSE /\ frame' = [ new_city  |-> new_city(last, force_fraud, rnd),
                                 timestamp |-> timestamp_of(last, force_fraud, now, rnd) ]
                   /\ console' = IF takes_fraud_branch(last, force_fraud)
                                 THEN fraud_print(card_id, last, rnd)
                                 ELSE console
                   /\ fraud_prints' = IF takes_fraud_branch(last, force_fraud)
                                      THEN fraud_prints + 1
                                      ELSE fraud_prints
                   /\ pc' = "return"
                   /\ UNCHANGED exc
  /\ UNCHANGED << conn_string, producer, closes, card_states,
                  transaction_count, fraud_count, batch, batch_count, idx,
                  card_id, force_fraud, transaction, now, sink_batches,
                  sink_records, table >>

\* Lines 97-110: the dict is built and returned, and line 156 binds it.
Return ==
  /\ pc = "return"
  /\ \E rnd \in DriverDraws :
       transaction' = make_record(card_id, frame.new_city, frame.timestamp, rnd)
  /\ frame' = None
  /\ pc' = "store"
  /\ UNCHANGED << conn_string, producer, closes, card_states,
                  transaction_count, fraud_count, batch, batch_count, idx,
                  card_id, force_fraud, now, sink_batches, sink_records, exc,
                  console, fraud_prints, table,
                  deviations >>

\* Line 163.
Store ==
  /\ pc = "store"
  /\ card_states' = Put(card_states, card_id, transaction)
  /\ pc' = "add"
  /\ UNCHANGED << conn_string, producer, closes, transaction_count,
                  fraud_count, batch, batch_count, idx, card_id, force_fraud,
                  transaction, now, sink_batches, sink_records, exc, console,
                  fraud_prints, table,
                  frame, deviations >>

\* Line 165.
AddToBatch ==
  /\ pc = "add"
  /\ batch' = Append(batch, EventData(json_dumps(transaction)))
  /\ pc' = "addcount"
  /\ UNCHANGED << conn_string, producer, closes, card_states,
                  transaction_count, fraud_count, batch_count, idx, card_id,
                  force_fraud, transaction, now, sink_batches, sink_records,
                  exc, console, fraud_prints, table,
                  frame, deviations >>

\* Variant: the for loop makes one pass too many.
Mut_CountBatch ==
  /\ pc = "addcount"
  /\ batch_count' = batch_count + 1
  /\ idx' = idx + 1
  /\ pc' = IF idx + 1 <= BatchSize THEN "count" ELSE "send"
  /\ UNCHANGED << conn_string, producer, closes, card_states,
                  transaction_count, fraud_count, batch, card_id,
                  force_fraud, transaction, now, sink_batches, sink_records,
                  exc, console, fraud_prints, table,
                  frame, deviations >>

\* Line 166, and the step of the for loop of line 147.
CountBatch ==
  /\ pc = "addcount"
  /\ batch_count' = batch_count + 1
  /\ idx' = idx + 1
  /\ pc' = IF idx + 1 < BatchSize THEN "count" ELSE "send"
  /\ UNCHANGED << conn_string, producer, closes, card_states,
                  transaction_count, fraud_count, batch, card_id,
                  force_fraud, transaction, now, sink_batches, sink_records,
                  exc, console, fraud_prints, table,
                  frame, deviations >>

\* Line 168: the producer accepts the batch.
SendBatch ==
  /\ pc = "send"
  /\ sink_batches' = sink_batches + 1
  /\ sink_records' = sink_records + Len(batch)
  /\ pc' = "report"
  /\ UNCHANGED << conn_string, producer, closes, card_states,
                  transaction_count, fraud_count, batch, batch_count, idx,
                  card_id, force_fraud, transaction, now, exc, console,
                  fraud_prints, table,
                  frame, deviations >>

\* Line 168: producer.send_batch raises.
SendBatchFails ==
  /\ pc = "send"
  /\ OnException("send_batch")
  /\ UNCHANGED << conn_string, producer, closes, card_states,
                  transaction_count, fraud_count, batch, batch_count, idx,
                  card_id, force_fraud, transaction, now, sink_batches,
                  sink_records, console, fraud_prints, table,
                  frame, deviations >>

\* Lines 143 and 165: producer.create_batch or batch.add raises.
BatchCallFails ==
  /\ pc \in { "create", "add" }
  /\ OnException(IF pc = "create" THEN "create_batch" ELSE "add")
  /\ UNCHANGED << conn_string, producer, closes, card_states,
                  transaction_count, fraud_count, batch, batch_count, idx,
                  card_id, force_fraud, transaction, now, sink_batches,
                  sink_records, console, fraud_prints, table,
                  frame, deviations >>

\* Lines 170-173.
Report ==
  /\ pc = "report"
  /\ console' = [ msg         |-> "Sent batch",
                  batch_count |-> batch_count,
                  total_txns  |-> transaction_count,
                  total_fraud |-> fraud_count ]
  /\ pc' = "heartbeat"
  /\ UNCHANGED << conn_string, producer, closes, card_states,
                  transaction_count, fraud_count, batch, batch_count, idx,
                  card_id, force_fraud, transaction, now, sink_batches,
                  sink_records, exc, fraud_prints, table,
                  frame, deviations >>

\* Lines 176-182: every 100 transactions, the sample line.
Heartbeat ==
  /\ pc = "heartbeat"
  /\ IF transaction_count % HeartbeatEvery = 0
     THEN \E sample_card \in DOMAIN card_states :
            console' = [ msg      |-> "Sample card",
                         card_id  |-> sample_card,
                         location |-> card_states[sample_card].location,
                         amount   |-> card_states[sample_card].amount ]
     ELSE console' = console
  /\ pc' = "sleep"
  /\ UNCHANGED << conn_string, producer, closes, card_states,
                  transaction_count, fraud_count, batch, batch_count, idx,
                  card_id, force_fraud, transaction, now, sink_batches,
                  sink_records, exc, fraud_prints, table,
                  frame, deviations >>

\* Line 184: time.sleep(2) returns once the clock has advanced by 2 seconds.
Sleep ==
  /\ pc = "sleep"
  /\ now' = now + SleepSeconds
  /\ pc' = "create"
  /\ UNCHANGED << conn_string, producer, closes, card_states,
                  transaction_count, fraud_count, batch, batch_count, idx,
                  card_id, force_fraud, transaction, sink_batches,
                  sink_records, exc, console, fraud_prints, table,
                  frame, deviations >>

\* The clock moves on by a second while main() is at any position: a
\* statement, a call of the producer or a sleep takes longer.
Tick ==
  /\ pc \in StartupPcs \cup LoopPcs \cup HandlerPcs \cup { "finally" }
  /\ deviations < MaxDeviations
  /\ now' = now + 1
  /\ deviations' = deviations + 1
  /\ UNCHANGED << pc, conn_string, producer, closes, card_states,
                  transaction_count, fraud_count, batch, batch_count, idx,
                  card_id, force_fraud, transaction, sink_batches,
                  sink_records, exc, console, fraud_prints, table,
                  frame >>

\* KeyboardInterrupt is raised at the current position.  Before the try
\* block nothing catches it; inside it line 186 does; raised in an except
\* clause it leaves the clause and the finally clause runs; raised in the
\* finally clause before producer.close() it leaves main().
Interrupt ==
  /\ pc \in StartupPcs \cup LoopPcs \cup HandlerPcs \cup { "finally" }
  /\ pc' = CASE pc \in StartupPcs -> "done"
             [] pc \in LoopPcs    -> "except_interrupt"
             [] pc \in HandlerPcs -> "finally"
             [] OTHER             -> "done"
  /\ exc' = IF pc \in LoopPcs THEN "KeyboardInterrupt" ELSE exc
  /\ frame' = None
  /\ UNCHANGED << conn_string, producer, closes, card_states,
                  transaction_count, fraud_count, batch, batch_count, idx,
                  card_id, force_fraud, transaction, now, sink_batches,
                  sink_records, console, fraud_prints, table,
                  deviations >>

\* Lines 187-188.
PrintStopped ==
  /\ pc = "except_interrupt"
  /\ console' = [ msg |-> "Generator stopped" ]
  /\ pc' = "summary_transactions"
  /\ UNCHANGED << conn_string, producer, closes, card_states,
                  transaction_count, fraud_count, batch, batch_count, idx,
                  card_id, force_fraud, transaction, now, sink_batches,
                  sink_records, exc, fraud_prints, table,
                  frame, deviations >>

\* Line 189.
PrintTotalTransactions ==
  /\ pc = "summary_transactions"
  /\ console' = [ msg |-> "Generator stopped",
                  total_transactions |-> transaction_count ]
  /\ pc' = "summary_fraud"
  /\ UNCHANGED << conn_string, producer, closes, card_states,
                  transaction_count, fraud_count, batch, batch_count, idx,
                  card_id, force_fraud, transaction, now, sink_batches,
                  sink_records, exc, fraud_prints, table,
                  frame, deviations >>

\* Lines 190-191.
PrintTotalFraud ==
  /\ pc = "summary_fraud"
  /\ console' = [ msg |-> "Generator stopped",
                  total_transactions |-> console.total_transactions,
                  total_fraud |-> fraud_count ]
  /\ pc' = "finally"
  /\ UNCHANGED << conn_string, producer, closes, card_states,
                  transaction_count, fraud_count, batch, batch_count, idx,
                  card_id, force_fraud, transaction, now, sink_batches,
                  sink_records, exc, fraud_prints, table,
                  frame, deviations >>

\* Line 193.
PrintError ==
  /\ pc = "except_exception"
  /\ console' = [ msg |-> "Generator error", error |-> exc ]
  /\ pc' = "finally"
  /\ UNCHANGED << conn_string, producer, closes, card_states,
                  transaction_count, fraud_count, batch, batch_count, idx,
                  card_id, force_fraud, transaction, now, sink_batches,
                  sink_records, exc, fraud_prints, table,
                  frame, deviations >>

\* Line 195.
Close ==
  /\ pc = "finally"
  /\ producer' = "closed"
  /\ closes' = closes + 1
  /\ pc' = "done"
  /\ UNCHANGED << conn_string, card_states, transaction_count, fraud_count,
                  batch, batch_count, idx, card_id, force_fraud, transaction,
                  now, sink_batches, sink_records, exc, console,
                  fraud_prints, table,
                  frame, deviations >>

Next ==
  \/ CheckConfig
  \/ ConnectOk
  \/ ConnectFails
  \/ PrintConnected
  \/ InitState
  \/ CreateBatch
  \/ ResetCount
  \/ CountTransaction
  \/ PickCard
  \/ Decide
  \/ CountFraud
  \/ Synthesize
  \/ Return
  \/ Store
  \/ AddToBatch
  \/ CountBatch
  \/ SendBatch
  \/ SendBatchFails
  \/ BatchCallFails
  \/ Report
  \/ Heartbeat
  \/ Sleep
  \/ Tick
  \/ Interrupt
  \/ PrintStopped
  \/ PrintTotalTransactions
  \/ PrintTotalFraud
  \/ PrintError
  \/ Close

Spec == Init /\ [][Next]_vars

\* ------------------------------------------- generate_transaction on its own
\* Arguments drawn for one call: the card, the prior record (or none), the
\* directive and the clock; all other variables keep their initial values.
SynthTimes == { 0, 3599, 86390 }
SynthNows == { 0, 90000 }

\* The draws of the call that made a prior record.
PriorDraw ==
  [ city |-> 0, minutes |-> FraudMinLo, category |-> 0, merchant |-> 0,
    suffix |-> SuffixLo, amount |-> AmountLo * 1024 ]

\* Records returned by an earlier call with the table in use: one per key
\* and time.
PriorRecords ==
  { make_record(CardLo, table[i], t, PriorDraw) :
      t \in SynthTimes, i \in 1..Len(table) }

\* Records made with the full table, for a call that runs after CITIES was
\* bound to a smaller one: their location need not be a key any longer.
ForeignRecords ==
  { make_record(CardLo, CityNames[i], t, PriorDraw) :
      t \in SynthTimes, i \in 1..Len(CityNames) }

SynthDraws ==
  [ city     : 0..(Len(CityNames) - 1),
    minutes  : FraudMinLo..FraudMinHi,
    category : { 0, 4 },
    merchant : { 3 },
    suffix   : { SuffixLo, SuffixHi },
    amount   : { AmountLo * 1024, 5248, 5504, AmountHi * 1024 - 1, AmountHi * 1024 } ]

\* Everything but the arguments of the call.
SynthRest ==
  /\ pc = "call"
  /\ conn_string = TRUE
  /\ producer = "none"
  /\ closes = 0
  /\ card_id = CardLo
  /\ transaction_count = 0
  /\ fraud_count = 0
  /\ batch = << >>
  /\ batch_count = 0
  /\ idx = 0
  /\ transaction = None
  /\ sink_batches = 0
  /\ sink_records = 0
  /\ exc = "none"
  /\ console = [ msg |-> "none" ]
  /\ fraud_prints = 0
  /\ frame = None
  /\ deviations = 0

SynthInit ==
  /\ table = CityNames
  /\ card_states \in { << >> } \cup { Put(<< >>, CardLo, r) :
                                      r \in PriorRecords \cup { EmptyDict } }
  /\ force_fraud \in BOOLEAN
  /\ now \in SynthNows
  /\ SynthRest

\* generate_transaction(card_id, card_states.get(card_id), force_fraud).
SynthCall ==
  /\ pc = "call"
  /\ \E rnd \in SynthDraws :
       LET last    == Get(card_states, card_id)
           outcome == generate_transaction(card_id, last, force_fraud, now, rnd)
       IN  IF IsRaised(outcome)
           THEN /\ exc' = outcome.raised
                /\ pc' = "raised"
                /\ UNCHANGED << transaction, console, fraud_prints >>
           ELSE /\ transaction' = outcome
                /\ console' = IF takes_fraud_branch(last, force_fraud)
                              THEN fraud_print(card_id, last, rnd)
                              ELSE console
                /\ fraud_prints' = IF takes_fraud_branch(last, force_fraud)
                                   THEN fraud_prints + 1
                                   ELSE fraud_prints
                /\ pc' = "returned"
                /\ UNCHANGED exc
  /\ UNCHANGED << table, conn_string, producer, closes,
                  card_states, transaction_count, fraud_count, batch,
                  batch_count, idx, card_id, force_fraud, now, sink_batches,
                  sink_records, frame, deviations >>

SynthNext == SynthCall

SpecSynth == SynthInit /\ [][SynthNext]_vars

\* ----------------------- generate_transaction with a smaller reference table
\* Tables made of entries of CITIES: without the fallback city, the fallback
\* city alone, two near cities, and one with candidates for every city.
CustomTables ==
  { << "London", "Paris" >>,
    << "Tokyo" >>,
    << "Dubai", "Mumbai" >>,
    << "London", "Paris", "Tokyo" >>,
    << >> }

TableInit ==
  /\ table \in CustomTables
  /\ card_states \in { << >> } \cup { Put(<< >>, CardLo, r) :
                                      r \in PriorRecords \cup ForeignRecords
                                            \cup { EmptyDict } }
  /\ force_fraud \in BOOLEAN
  /\ now \in SynthNows
  /\ SynthRest

TableNext == SynthCall

SpecTable == TableInit /\ [][TableNext]_vars

\* ================================================================ properties
\* The record a card had before the pending call, or None.
Prior == Get(card_states, card_id)

\* Time point of a stored record.
TimeOf(record) == fromisoformat(record.timestamp)

\* Steps of one pass of the for loop, seen from outside.
CountStep == pc = "count" /\ pc' = "pick"
DecideStep == pc = "decide" /\ pc' = "bump"
BumpStep == pc = "bump" /\ pc' = "call"
ReturnStep == pc = "return" /\ pc' = "store"
StoreStep == pc = "store" /\ pc' = "add"
AddStep == pc = "add" /\ pc' = "addcount"

\* C1: for every card, the record that replaces its stored record never has
\* an earlier timestamp than the record it replaces.
C1_MonotonicTime ==
  [][ \A c \in DOMAIN card_states :
        TimeOf(card_states'[c]) >= TimeOf(card_states[c]) ]_vars

\* C2: a failure of send_batch does not end the loop: after it the driver
\* is still at a position of the loop.
C2_SinkFailureIsolated ==
  exc = "send_batch" => pc \in LoopPcs

\* The summary of lines 187-191 has been printed to its end.
SummaryPrinted ==
  /\ console.msg = "Generator stopped"
  /\ DOMAIN console = { "msg", "total_transactions", "total_fraud" }
  /\ console.total_transactions = transaction_count
  /\ console.total_fraud = fraud_count

\* C3: when the driver has halted on a KeyboardInterrupt that nothing else
\* followed, the summary of both totals has been printed and every record
\* synthesized so far has been handed to the sink.
C3_CancellationCompletesBatch ==
  ( pc = "done" /\ exc = "KeyboardInterrupt" /\ closes = 1 /\ SummaryPrinted )
    => sink_records = transaction_count

\* C4: each pass advances the sequence number by one before the decision
\* (first value 1); the decision forces an anomaly exactly when that number
\* is a multiple of 50 and the drawn card is in the store; the anomaly
\* counter moves by one exactly after such a decision, and no other step
\* moves either counter.
C4_InjectionScheduler ==
  [][ /\ CountStep => transaction_count' = transaction_count + 1
      /\ transaction_count' # transaction_count => CountStep
      /\ pc = "decide" => transaction_count >= 1
      /\ DecideStep =>
           force_fraud' = ( transaction_count % FraudEvery = 0
                            /\ card_id \in DOMAIN card_states )
      /\ BumpStep =>
           fraud_count' = fraud_count + (IF force_fraud THEN 1 ELSE 0)
      /\ fraud_count' # fraud_count => BumpStep ]_vars

C4_Witness ==
  pc = "call" /\ transaction_count = FraudEvery /\ force_fraud /\ fraud_count = 1

\* C5: a record returned for a prior record with force_fraud set, when some
\* city lies more than 5000 km from the prior city, is at another city, more
\* than 5000 km from the prior city.
C5_AnomalyDistance ==
  ( /\ pc = "returned"
    /\ truthy(Prior)
    /\ force_fraud
    /\ \E c \in DOMAIN CITIES :
         calculate_distance_km(Prior.location, c) > FraudKm * 1000 )
    => /\ transaction.location # Prior.location
       /\ calculate_distance_km(Prior.location, transaction.location)
            > FraudKm * 1000

C5_Witness ==
  /\ pc = "returned"
  /\ truthy(Prior)
  /\ force_fraud
  /\ Prior.location = "London"
  /\ transaction.location = "Los Angeles"

\* C6: a record returned for a prior record with force_fraud set lies a whole
\* number of minutes, between 10 and 30, after the prior record, whatever
\* the clock reads.
C6_AnomalyTimeWindow ==
  ( pc = "returned" /\ truthy(Prior) /\ force_fraud )
    => LET gap == TimeOf(transaction) - TimeOf(Prior)
       IN  /\ gap % 60 = 0
           /\ gap \div 60 >= FraudMinLo
           /\ gap \div 60 <= FraudMinHi

C6_Witness ==
  /\ pc = "returned"
  /\ truthy(Prior)
  /\ force_fraud
  /\ TimeOf(transaction) - TimeOf(Prior) = FraudMinHi * 60
  /\ now > TimeOf(transaction)

\* C7: a synthesis for a card in the store without force_fraud keeps the
\* stored location, and the stored location of a card changes only in a
\* synthesis for that card with force_fraud set.
C7_BaselineConsistency ==
  [][ /\ ( ReturnStep /\ card_id \in DOMAIN card_states /\ ~force_fraud )
           => transaction'.location = card_states[card_id].location
      /\ \A c \in DOMAIN card_states :
           card_states'[c].location # card_states[c].location
             => ( StoreStep /\ card_id = c /\ force_fraud ) ]_vars

C7_Witness ==
  /\ pc = "add"
  /\ ~force_fraud
  /\ \E i \in 1..Len(batch) :
       /\ batch[i].body[1][2] = card_id
       /\ batch[i].body[3][2] = transaction.location
       /\ batch[i].body[6][2] = transaction.timestamp

\* C8: the anomaly counter times 50 never exceeds the transaction counter.
C8_AnomalyRate ==
  fraud_count * FraudEvery <= transaction_count

C8_Witness ==
  fraud_count = 1 /\ transaction_count = FraudEvery

\* C9: the producer is closed at most once, only when the driver halts, and
\* a driver that halts after acquiring the producer, whatever stopped it,
\* has closed it once.
C9_SinkReleased ==
  /\ closes <= 1
  /\ producer = "closed" => ( pc = "done" /\ closes = 1 )
  /\ ( pc = "done" /\ producer # "none" ) => ( producer = "closed" /\ closes = 1 )

\* C10: the store step puts the record just returned under its card, adding
\* that key and leaving every other entry as it was; the following add
\* appends that same stored record to the batch; no other step changes the
\* store; once a pass is complete the entry of its card is the record
\* returned in it and the last event of the batch is that record.
C10_RecordLifecycle ==
  [][ /\ pc \in { "add", "addcount" } => card_states[card_id] = transaction
      /\ ( pc \in { "count", "send" } /\ idx > 0 ) =>
           /\ card_states[card_id] = transaction
           /\ batch[Len(batch)] = EventData(json_dumps(transaction))
      /\ StoreStep =>
           /\ DOMAIN card_states' = (DOMAIN card_states) \cup { card_id }
           /\ card_states'[card_id] = transaction
           /\ \A c \in (DOMAIN card_states) \ { card_id } :
                card_states'[c] = card_states[c]
      /\ AddStep =>
           /\ card_states[card_id] = transaction
           /\ batch' = Append(batch, EventData(json_dumps(card_states[card_id])))
      /\ ~StoreStep => card_states' = card_states ]_vars

C10_Witness ==
  /\ pc = "count"
  /\ Len(batch) >= 2
  /\ DOMAIN card_states = CardIds
  /\ batch[Len(batch)] = EventData(json_dumps(card_states[card_id]))
  /\ batch[Len(batch) - 1].body[1][2] # card_id

\* C11: a start has no card in the store; a card enters the store only in
\* the store step of a pass for that card, and no step removes a card from
\* the store.
C11_EntityStateMachine ==
  [][ /\ pc = "config" => DOMAIN card_states = { }
      /\ (DOMAIN card_states) \subseteq (DOMAIN card_states')
      /\ \A c \in (DOMAIN card_states') \ (DOMAIN card_states) :
           StoreStep /\ card_id = c ]_vars

C11_Witness ==
  /\ DOMAIN card_states = CardIds
  /\ transaction_count >= BatchSize + 2
  /\ \E i \in 1..Len(batch) : batch[i].body[1][2] = CardHi
  /\ pc = "count"

\* Latitude and longitude of a record are those of CITIES for its location.
GeoMatches(record) ==
  /\ record.location \in DOMAIN CITIES
  /\ record.latitude = CITIES[record.location][1]
  /\ record.longitude = CITIES[record.location][2]

\* The same for a serialized record of the batch.
EventGeoMatches(event) ==
  /\ event.body[3][2] \in DOMAIN CITIES
  /\ event.body[4][2] = CITIES[event.body[3][2]][1]
  /\ event.body[5][2] = CITIES[event.body[3][2]][2]

\* C12: the record just returned, every record of the store and every
\* record of the batch carry the coordinates CITIES gives for their location.
C12_GeoMatchesTable ==
  /\ transaction # None => GeoMatches(transaction)
  /\ \A c \in DOMAIN card_states : GeoMatches(card_states[c])
  /\ \A i \in 1..Len(batch) : EventGeoMatches(batch[i])

C12_Witness ==
  /\ pc = "send"
  /\ fraud_count = 1
  /\ fraud_prints = 1
  /\ card_states[CardLo].location = "Tokyo"
  /\ \E i \in 1..Len(batch) : batch[i].body[3][2] = "London"
  /\ \E i \in 1..Len(batch) : batch[i].body[3][2] = "Tokyo"

\* Nothing has been synthesized, counted or handed to the sink.
NoOutput ==
  /\ transaction_count = 0
  /\ fraud_count = 0
  /\ card_states = << >>
  /\ transaction = None
  /\ batch = << >>
  /\ sink_batches = 0
  /\ sink_records = 0
  /\ producer = "none"

\* C13: without a connection string the driver never gets past start-up, and
\* after either start-up error message the driver has halted with no output.
C13_ConfigErrorFatal ==
  /\ ~conn_string => ( pc \in { "config", "done" } /\ NoOutput )
  /\ console.msg \in { "ERROR: EVENT_HUB_CONNECTION_STRING not set",
                       "Connection failed" }
       => ( pc = "done" /\ NoOutput )

C13_Witness ==
  /\ pc = "done"
  /\ ~conn_string
  /\ console.msg = "ERROR: EVENT_HUB_CONNECTION_STRING not set"

\* C14: a record returned for a card without a prior record is at a city of
\* CITIES with the clock's time, whether or not force_fraud is set, and no
\* fraud line is printed for it.
C14_FirstTransactionBaseline ==
  ( pc = "returned" /\ ~truthy(Prior) )
    => /\ transaction.location \in DOMAIN CITIES
       /\ TimeOf(transaction) = now
       /\ console.msg # "FRAUD INJECTED"

C14_Witness ==
  /\ pc = "returned"
  /\ Prior = None
  /\ force_fraud
  /\ now > 0
  /\ transaction.location = "Mumbai"

\* C15: every city of CITIES has another city more than 5000 km away, and a
\* record returned for a prior record with force_fraud set is at one of the
\* candidates of its prior city, never at the prior city itself.
C15_FallbackUnreachable ==
  /\ \A c \in DOMAIN CITIES : distant_cities(c) # << >>
  /\ ( pc = "returned" /\ truthy(Prior) /\ force_fraud )
       => /\ \E i \in 1..Len(distant_cities(Prior.location)) :
               distant_cities(Prior.location)[i] = transaction.location
          /\ transaction.location # Prior.location
          /\ calculate_distance_km(Prior.location, transaction.location)
               > FraudKm * 1000

C15_Witness ==
  /\ pc = "returned"
  /\ truthy(Prior)
  /\ force_fraud
  /\ Prior.location = "Mumbai"
  /\ transaction.location = "Tokyo"

\* C19: a batch about to be sent holds 10 events, each for a card id in
\* 1000..1050, the last event of each card being that card's stored record;
\* at that point the transaction counter is 10 times the batches accepted
\* plus this one, and the line printed after the send reports 10 and the
\* counters as they are.
C19_BatchShape ==
  /\ Len(batch) <= BatchSize
  /\ pc = "send" =>
       /\ Len(batch) = BatchSize
       /\ batch_count = BatchSize
       /\ transaction_count = BatchSize * (sink_batches + 1)
       /\ \A i \in 1..Len(batch) :
            /\ batch[i].body[1][2] >= CardLo
            /\ batch[i].body[1][2] <= CardHi
            /\ ( \A j \in (i + 1)..Len(batch) :
                   batch[j].body[1][2] # batch[i].body[1][2] )
                 => batch[i] = EventData(json_dumps(card_states[batch[i].body[1][2]]))
  /\ pc \in { "report", "heartbeat", "sleep" } =>
       /\ transaction_count = BatchSize * sink_batches
       /\ sink_records = transaction_count
  /\ ( pc \in { "heartbeat", "sleep" } /\ console.msg = "Sent batch" ) =>
       /\ console.batch_count = BatchSize
       /\ console.total_txns = transaction_count
       /\ console.total_fraud = fraud_count

C19_Witness ==
  /\ pc = "sleep"
  /\ console.msg = "Sent batch"
  /\ sink_batches = 5
  /\ fraud_count = 1

\* C16: the amount of every record returned by generate_transaction is a
\* number of cents between 500 and 50000, whatever the prior record was
\* (none, the empty dict, or a full record).
C16_AmountBounds ==
  transaction # None =>
    ( transaction.amount >= AmountLo * 100 /\ transaction.amount <= AmountHi * 100 )

C16_Witness ==
  /\ pc = "returned"
  /\ transaction.amount = AmountHi * 100
  /\ truthy(Prior)
  /\ Prior.amount = AmountLo * 100

\* C18: with a table that holds the prior city and in which no city is more
\* than 5000 km from it, a call with force_fraud set returns (does not
\* raise) a record at the fallback city, 10 to 30 whole minutes after the
\* prior record.
C18_EmptyCandidatesDegrade ==
  ( /\ pc \in { "returned", "raised" }
    /\ truthy(Prior)
    /\ InTable(Prior.location)
    /\ force_fraud
    /\ distant_cities(Prior.location) = << >> )
    => /\ pc = "returned"
       /\ transaction.location = FallbackCity
       /\ (TimeOf(transaction) - TimeOf(Prior)) % 60 = 0
       /\ (TimeOf(transaction) - TimeOf(Prior)) \div 60 >= FraudMinLo
       /\ (TimeOf(transaction) - TimeOf(Prior)) \div 60 <= FraudMinHi

\* C20: the anomaly counter equals the number of passes through the fraud
\* branch of generate_transaction (one fraud line each); stated here for
\* the states in which the driver has halted, where the counter is final.
C20_AnomalyCounterAgrees ==
  pc = "done" => fraud_count = fraud_prints

====
